---- MODULE Spec2Model ----
(***************************************************************************)
(* Model of the med-notes token pipeline:                                  *)
(*   - parseTokensClient            (src/src/Backend/api.js)               *)
(*   - createDebouncedSearch        (src/src/Backend/api.js)               *)
(*   - useFeatureSearch, useTokenParser, useTokenInputWorkflow             *)
(*                                  (src/unnamed/part_002, hooks/useApi)   *)
(*   - BackendService cache         (src/src/Backend/backendConfig.js)     *)
(*   - TokenInput.handleSubmit      (src/src/components/TokenInput.jsx)    *)
(*                                                                         *)
(* Text is modelled as a sequence of one-character atoms.  The glyphs      *)
(* U+2191 and U+2193 are the atoms "up" and "dn".                          *)
(***************************************************************************)
EXTENDS Integers, Sequences, FiniteSets, TLC

VARIABLES
    \* ---- tokenizer (parseTokensClient) ----
    tkInput,      \* the inputString argument
    tkParsed,     \* the array returned for tkInput
    tkClean,      \* a cleanToken of tkParsed handed back to the tokenizer
    tkReparsed,   \* the array returned for tkClean
    tkPc          \* "input" | "parsed" | "reparsed"

tkVars == <<tkInput, tkParsed, tkClean, tkReparsed, tkPc>>

VARIABLES
    \* ---- useFeatureSearch over createDebouncedSearch(searchFeatures, 300) ----
    sNow,         \* the clock, in ticks of 100 ms
    sQuery,       \* useState: query
    sResults,     \* useState: results
    sLoading,     \* useState: loading
    sError,       \* useState: error
    sTimeoutId,   \* createDebouncedSearch: timeoutId (0: undefined)
    sTimers,      \* the pending setTimeout callbacks
    sCalls,       \* the debouncedSearch calls made so far, in order
    sLookups,     \* the search_features_advanced invocations made so far
    sDelivered    \* the results handed to performSearch so far

sVars == <<sNow, sQuery, sResults, sLoading, sError, sTimeoutId, sTimers,
           sCalls, sLookups, sDelivered>>

VARIABLES
    \* ---- useTokenInputWorkflow(diseaseId) ----
    wDiseaseId,   \* the hook's diseaseId argument (Null: none selected)
    wPc,          \* processTokenInput: "idle" | "parsing" | "loop" | "awaiting"
    wInput,       \* tokenString of the current invocation
    wTarget,      \* the diseaseId the current invocation closed over
    wParsed,      \* parsedTokens || []
    wIdx,         \* position of the for..of loop: the next token to visit
    wProcessed,   \* processedTokens
    wInFlight,    \* token positions whose addFeatureToDisease call is in flight
    wProcessing,  \* useState: processing
    wResults,     \* useState: results
    wError,       \* useState: error
    wAttachLog,   \* attach calls issued and answered by the current invocation
    wRpcs,        \* parse_medical_tokens calls made so far
    wSettled      \* one record per invocation whose promise has settled

wVars == <<wDiseaseId, wPc, wInput, wTarget, wParsed, wIdx, wProcessed, wInFlight,
           wProcessing, wResults, wError, wAttachLog, wRpcs, wSettled>>

VARIABLES
    \* ---- TokenInput (handleSubmit) with useTokenParser ----
    hDiseaseId,        \* prop diseaseId (Null: none)
    hInput,            \* useState: input
    hPc,               \* handleSubmit: "idle" | "parsing"
    hProcessedTokens,  \* useState: processedTokens
    hIsProcessing,     \* useState: isProcessing
    hParsing,          \* useTokenParser: parsing
    hParseError,       \* useTokenParser: error
    hToasts,           \* the toasts shown so far
    hAdded,            \* the arguments of the onTokensAdded calls so far
    hAnswers           \* the parse rpc answers received so far

hVars == <<hDiseaseId, hInput, hPc, hProcessedTokens, hIsProcessing, hParsing,
           hParseError, hToasts, hAdded, hAnswers>>

VARIABLES
    \* ---- BackendService (the shared cache) ----
    cNow,         \* the clock, in ticks of 100 s
    cCache,       \* this.cache: a function from the keys present to their values
    cTimers,      \* the pending setTimeout callbacks that delete a key
    cRequests,    \* the searchFeatures and getDiseaseStats calls so far, in order
    cRpcs,        \* the rpc invocations made so far
    cSubscribers, \* this.subscribers: the tables subscribed to
    cInvalidated, \* the last clearCacheByPrefix call: its argument, who made it,
                  \* and the cache before and after it (Null: none yet)
    cStored,      \* history: for each key stored and not removed by clearCache or
                  \* clearCacheByPrefix since, the time of its last store
    cClearedUpTo  \* history: the number of requests made before the last
                  \* clearCache (0: never cleared)

cVars == <<cNow, cCache, cTimers, cRequests, cRpcs, cSubscribers, cInvalidated,
           cStored, cClearedUpTo>>

vars == <<tkVars, sVars, wVars, hVars, cVars>>

\* What the actions of each component leave alone: the other components.
tkFrame == <<sVars, wVars, hVars, cVars>>
sFrame == <<tkVars, wVars, hVars, cVars>>
wFrame == <<tkVars, sVars, hVars, cVars>>
hFrame == <<tkVars, sVars, wVars, cVars>>
cFrame == <<tkVars, sVars, wVars, hVars>>

(***************************************************************************)
(* JavaScript values the code distinguishes.                               *)
(***************************************************************************)
\* An optional value (null or a value): the empty tuple is null, <<x>> is x.
Null == <<>>
Some(x) == <<x>>

\* A string value whose type the callers can tell apart from a number
\* (typeof): a regex capture group is a string.
JsString(text) == [type |-> "string", text |-> text]

(***************************************************************************)
(* Tokenizer: parseTokensClient, api.js 60-107                             *)
(***************************************************************************)
MaxLen == 4

Up == "up"
Down == "dn"
Alphabet == {"a", "1", "+", "-", "<", ">", "=", Up, Down, " "}
Digits == {"1"}
Whitespace == {" "}

RECURSIVE StringsUpTo(_)
StringsUpTo(n) ==
    IF n = 0 THEN {<<>>}
    ELSE LET shorter == StringsUpTo(n - 1)
         IN  shorter \cup {Append(s, c) : s \in {t \in shorter : Len(t) = n - 1}, c \in Alphabet}

\* String.prototype.trim
RECURSIVE TrimLeft(_)
TrimLeft(s) ==
    IF s # <<>> /\ Head(s) \in Whitespace THEN TrimLeft(Tail(s)) ELSE s

RECURSIVE TrimRight(_)
TrimRight(s) ==
    IF s # <<>> /\ s[Len(s)] \in Whitespace THEN TrimRight(SubSeq(s, 1, Len(s) - 1)) ELSE s

Trim(s) == TrimRight(TrimLeft(s))

\* String.prototype.split(/\s+/): the fragments between maximal whitespace
\* runs; a leading or trailing run leaves an empty fragment, and the empty
\* string splits into one empty fragment.
RECURSIVE SplitFrom(_, _, _, _)
SplitFrom(s, i, cur, acc) ==
    IF i > Len(s) THEN Append(acc, cur)
    ELSE IF s[i] \in Whitespace
         THEN IF i > 1 /\ s[i - 1] \in Whitespace
              THEN SplitFrom(s, i + 1, cur, acc)
              ELSE SplitFrom(s, i + 1, <<>>, Append(acc, cur))
         ELSE SplitFrom(s, i + 1, Append(cur, s[i]), acc)

SplitWhitespace(s) == SplitFrom(s, 1, <<>>, <<>>)

StartsWith(s, c) == s # <<>> /\ s[1] = c
EndsWith(s, c) == s # <<>> /\ s[Len(s)] = c
DropLast(s) == SubSeq(s, 1, Len(s) - 1)

AllDigits(s) == \A i \in 1..Len(s) : s[i] \in Digits

\* /^(.+?)([<>]=?)(\d+)$/ with the word part of length w: the operator
\* starts at w+1, "=" is taken when present, the rest is a non-empty digit run.
ComparisonAt(s, w) ==
    /\ w >= 1
    /\ w + 1 <= Len(s)
    /\ s[w + 1] \in {"<", ">"}
    /\ LET opLen == IF w + 2 <= Len(s) /\ s[w + 2] = "=" THEN 2 ELSE 1
           rest == SubSeq(s, w + 1 + opLen, Len(s))
       IN  rest # <<>> /\ AllDigits(rest)

\* The match of the regex: the shortest word part (.+? is lazy) for which the
\* whole pattern matches, or Null.
ComparisonMatch(s) ==
    LET ws == {w \in 1..Len(s) : ComparisonAt(s, w)}
    IN  IF ws = {} THEN Null
        ELSE LET w == CHOOSE x \in ws : \A y \in ws : x <= y
                 opLen == IF w + 2 <= Len(s) /\ s[w + 2] = "=" THEN 2 ELSE 1
             IN  Some([word   |-> SubSeq(s, 1, w),
                       op     |-> SubSeq(s, w + 1, w + opLen),
                       digits |-> SubSeq(s, w + 1 + opLen, Len(s))])

\* Mutant of AfterPrefix: presence is taken from an explicit "+" only
\* (let isPresent = token.startsWith('+')).
AfterPrefixPlusOnly(token) ==
    IF StartsWith(token, "+") THEN [isPresent |-> TRUE, clean |-> Tail(token)]
    ELSE IF StartsWith(token, "-") THEN [isPresent |-> FALSE, clean |-> Tail(token)]
    ELSE [isPresent |-> FALSE, clean |-> token]

\* Mutant of AfterPrefix: every leading sign is stripped
\* (cleanToken = token.replace(/^[+-]+/, '')).
RECURSIVE StripSigns(_)
StripSigns(token) ==
    IF StartsWith(token, "+") \/ StartsWith(token, "-") THEN StripSigns(Tail(token))
    ELSE token

AfterPrefixStripAll(token) ==
    [isPresent |-> ~StartsWith(token, "-"), clean |-> StripSigns(token)]

\* api.js 67-78: the +/- prefix
AfterPrefix(token) ==
    IF StartsWith(token, "+") THEN [isPresent |-> TRUE, clean |-> Tail(token)]
    ELSE IF StartsWith(token, "-") THEN [isPresent |-> FALSE, clean |-> Tail(token)]
    ELSE [isPresent |-> TRUE, clean |-> token]

\* api.js 80-87: the directional indicator
AfterDirection(clean) ==
    IF EndsWith(clean, Up) THEN [valueModifier |-> Some(<<Up>>), clean |-> DropLast(clean)]
    ELSE IF EndsWith(clean, Down) THEN [valueModifier |-> Some(<<Down>>), clean |-> DropLast(clean)]
    ELSE [valueModifier |-> Null, clean |-> clean]

\* Mutant of AfterComparison: a modifier set by the direction step is kept
\* (valueModifier = valueModifier || comparisonMatch[2]).
AfterComparisonKeepModifier(d) ==
    LET m == ComparisonMatch(d.clean)
    IN  IF m = Null
        THEN [cleanToken |-> d.clean, valueModifier |-> d.valueModifier, numericValue |-> Null]
        ELSE [cleanToken    |-> m[1].word,
              valueModifier |-> IF d.valueModifier # Null THEN d.valueModifier
                                ELSE Some(m[1].op),
              numericValue  |-> Some(JsString(m[1].digits))]

\* api.js 89-95: the comparison operator, applied to whatever the direction
\* step left, and overriding its modifier on a match; numericValue is the
\* third capture group, a string
AfterComparison(d) ==
    LET m == ComparisonMatch(d.clean)
    IN  IF m = Null
        THEN [cleanToken |-> d.clean, valueModifier |-> d.valueModifier, numericValue |-> Null]
        ELSE [cleanToken    |-> m[1].word,
              valueModifier |-> Some(m[1].op),
              numericValue  |-> Some(JsString(m[1].digits))]

\* api.js 64-104: the body of the loop for one non-empty fragment
ParseOneToken(token) ==
    LET p == AfterPrefix(token)
        c == AfterComparison(AfterDirection(p.clean))
    IN  [original     |-> token,
         cleanToken   |-> c.cleanToken,
         isPresent    |-> p.isPresent,
         valueModifier |-> c.valueModifier,
         numericValue |-> c.numericValue]

\* Mutant of ParseFragments: an empty fragment is not skipped.
RECURSIVE ParseFragmentsNoSkip(_)
ParseFragmentsNoSkip(frags) ==
    IF frags = <<>> THEN <<>>
    ELSE <<ParseOneToken(Head(frags))>> \o ParseFragmentsNoSkip(Tail(frags))

RECURSIVE ParseFragments(_)
ParseFragments(frags) ==
    IF frags = <<>> THEN <<>>
    ELSE IF Head(frags) = <<>>
         THEN ParseFragments(Tail(frags))                       \* if (!token) continue
         ELSE <<ParseOneToken(Head(frags))>> \o ParseFragments(Tail(frags))

parseTokensClient(inputString) == ParseFragments(SplitWhitespace(Trim(inputString)))

TkIdle ==
    /\ tkInput = <<>>
    /\ tkParsed = <<>>
    /\ tkClean = <<>>
    /\ tkReparsed = <<>>
    /\ tkPc = "input"

Tokenize ==
    /\ tkPc = "input"
    /\ tkParsed' = parseTokensClient(tkInput)
    /\ tkPc' = "parsed"
    /\ UNCHANGED <<tkInput, tkClean, tkReparsed>>
    /\ UNCHANGED tkFrame

\* the cleanToken of one produced token is tokenized alone
Retokenize ==
    /\ tkPc = "parsed"
    /\ \E i \in 1..Len(tkParsed) :
          /\ tkClean' = tkParsed[i].cleanToken
          /\ tkReparsed' = parseTokensClient(tkParsed[i].cleanToken)
    /\ tkPc' = "reparsed"
    /\ UNCHANGED <<tkInput, tkParsed>>
    /\ UNCHANGED tkFrame

TkNext == Tokenize \/ Retokenize

(***************************************************************************)
(* Suggestion matcher: createDebouncedSearch (api.js 598-614),             *)
(* searchFeatures (api.js 8-21), useFeatureSearch (part_002 21-71)         *)
(***************************************************************************)
MaxCalls == 3
MaxTime == 7

\* createDebouncedSearch(searchFeatures, 300): 300 ms, in ticks of 100 ms
DebounceDelay == 3
\* debouncedSearch(query, 10)
SearchLimit == 10

Queries == {<<>>, <<" ">>, <<"a">>, <<"a", "b">>}

EmptyResults == [kind |-> "empty", term |-> <<>>]

\* What the lookup service answers: rows for the term, no rows object, or an
\* error.
LookupOutcomes == {"data", "null", "error"}

\* Mutant of ScheduleDebounced: the pending timer is not cleared.
ScheduleWithoutClear(timers, timeoutId, timer) == timers \cup {timer}

\* api.js 603-604: clearTimeout(timeoutId); timeoutId = setTimeout(..., delay)
ScheduleDebounced(timers, timeoutId, timer) ==
    {t \in timers : t.id # timeoutId} \cup {timer}

\* api.js 601-612: one call of the debounced function; the promise it returns
\* stays pending until its timer has fired and the search has answered.
DebouncedCall(q) ==
    LET id == Len(sCalls) + 1
        timer == [id |-> id, term |-> q, limit |-> SearchLimit,
                  due |-> sNow + DebounceDelay]
    IN  /\ sTimers' = ScheduleDebounced(sTimers, sTimeoutId, timer)
        /\ sTimeoutId' = id
        /\ sCalls' = Append(sCalls, [term |-> q, at |-> sNow, st |-> "pending"])

\* part_002 32-55: the effect that runs when query has changed
SearchEffect(q) ==
    IF Trim(q) = <<>>
    THEN /\ sResults' = EmptyResults                     \* setResults([]); return
         /\ UNCHANGED <<sLoading, sError, sTimeoutId, sTimers, sCalls>>
    ELSE /\ Len(sCalls) < MaxCalls
         /\ sLoading' = TRUE
         /\ sError' = FALSE
         /\ DebouncedCall(q)
         /\ UNCHANGED sResults

\* setQuery(q) followed by the effect; React re-runs the effect only when
\* query has changed.
SetQuery(q) ==
    /\ q # sQuery
    /\ sQuery' = q
    /\ SearchEffect(q)
    /\ UNCHANGED <<sNow, sLookups, sDelivered>>
    /\ UNCHANGED sFrame

\* part_002 57-61: clearSearch, followed by the effect when query changed
ClearSearch ==
    /\ sQuery' = <<>>
    /\ sResults' = EmptyResults
    /\ sError' = FALSE
    /\ UNCHANGED <<sNow, sLoading, sTimeoutId, sTimers, sCalls, sLookups, sDelivered>>
    /\ UNCHANGED sFrame

\* api.js 604-606: a timer fires and calls searchFunction(...args), which
\* sends the rpc (api.js 10-13)
TimerFire ==
    \E t \in sTimers :
        /\ sNow >= t.due
        /\ sTimers' = sTimers \ {t}
        /\ sLookups' = Append(sLookups, [call |-> t.id, term |-> t.term, limit |-> t.limit])
        /\ sCalls' = [sCalls EXCEPT ![t.id].st = "inflight"]
        /\ UNCHANGED <<sNow, sQuery, sResults, sLoading, sError, sTimeoutId, sDelivered>>
        /\ UNCHANGED sFrame

\* api.js 15-20: searchFeatures turns the rpc answer into {data, error}
SearchFeaturesResult(term, outcome) ==
    IF outcome = "error" THEN [data |-> "null", error |-> TRUE, term |-> term]
    ELSE [data |-> outcome, error |-> FALSE, term |-> term]

\* part_002 43-50: what performSearch does with the resolved value
ResultsAfter(res) ==
    IF res.error THEN EmptyResults                        \* catch: setResults([])
    ELSE IF res.data = "null" THEN EmptyResults           \* data || []
    ELSE [kind |-> "data", term |-> res.term]

\* The rpc of call c answers; api.js 607 resolves the promise of c and the
\* performSearch that awaits it runs to its end (part_002 43-51).
LookupRespond ==
    \E c \in 1..Len(sCalls), outcome \in LookupOutcomes :
        /\ sCalls[c].st = "inflight"
        /\ LET res == SearchFeaturesResult(sCalls[c].term, outcome)
           IN  /\ sResults' = ResultsAfter(res)
               /\ sError' = res.error
               /\ sDelivered' = Append(sDelivered,
                                       [call |-> c, newest |-> Len(sCalls), res |-> res])
        /\ sLoading' = FALSE
        /\ sCalls' = [sCalls EXCEPT ![c].st = "settled"]
        /\ UNCHANGED <<sNow, sQuery, sTimeoutId, sTimers, sLookups>>
        /\ UNCHANGED sFrame

STick ==
    /\ sNow < MaxTime
    /\ sNow' = sNow + 1
    /\ UNCHANGED <<sQuery, sResults, sLoading, sError, sTimeoutId, sTimers,
                   sCalls, sLookups, sDelivered>>
    /\ UNCHANGED sFrame

SIdle ==
    /\ sNow = 0
    /\ sQuery = <<>>                                     \* useState(initialQuery = '')
    /\ sResults = EmptyResults
    /\ sLoading = FALSE
    /\ sError = FALSE
    /\ sTimeoutId = 0
    /\ sTimers = {}
    /\ sCalls = <<>>
    /\ sLookups = <<>>
    /\ sDelivered = <<>>

SNext ==
    \/ \E q \in Queries : SetQuery(q)
    \/ ClearSearch
    \/ TimerFire
    \/ LookupRespond
    \/ STick

(***************************************************************************)
(* Resolution workflow: useTokenInputWorkflow (part_002 362-436),          *)
(* parseMedicalTokens (api.js 45-57), addFeatureToDisease (api.js 508-526) *)
(***************************************************************************)
MaxRuns == 2

DiseaseIds == {Null, Some("d1")}

\* The token strings handed to processTokenInput: "", " ", "a", "-a a<1",
\* "+a aup a>=1".
WorkflowInputs ==
    { <<>>,
      <<" ">>,
      <<"a">>,
      <<"-", "a", " ", "a", "<", "1">>,
      <<"+", "a", " ", "a", Up, " ", "a", ">", "=", "1">> }

\* The non-empty whitespace-delimited fragments of a text.
Fragments(text) == SelectSeq(SplitWhitespace(Trim(text)), LAMBDA f : f # <<>>)

\* One row of parse_medical_tokens for the fragment at position k: the fields
\* of the token and the canonical feature the server found for it, if any.
ServerToken(frag, k, found) ==
    LET t == ParseOneToken(frag)
    IN  [original_token        |-> frag,
         canonical_feature_id  |-> IF found THEN Some(k) ELSE Null,
         is_present            |-> t.isPresent,
         value_modifier        |-> t.valueModifier,
         numeric_value         |-> t.numericValue]

\* What supabase.rpc('parse_medical_tokens') may answer for a text: an error,
\* no rows object, or one row per fragment, each with or without a canonical
\* feature.
ParseAnswers(text) ==
    LET frags == Fragments(text)
        n == Len(frags)
    IN  {[error |-> TRUE, isNull |-> TRUE, rows |-> <<>>],
         [error |-> FALSE, isNull |-> TRUE, rows |-> <<>>]}
        \cup {[error |-> FALSE, isNull |-> FALSE,
               rows |-> [k \in 1..n |-> ServerToken(frags[k], k, found[k])]] :
              found \in [1..n -> BOOLEAN]}

\* api.js 45-57: parseMedicalTokens turns the rpc answer into {data, error}
parseMedicalTokens(answer) ==
    IF answer.error THEN [data |-> Null, error |-> TRUE]
    ELSE [data |-> IF answer.isNull THEN Null ELSE Some(answer.rows), error |-> FALSE]

\* api.js 508-526: addFeatureToDisease turns the upsert answer into
\* {data, error}; it never throws
addFeatureToDisease(ok) ==
    IF ok THEN [data |-> TRUE, error |-> Null]
    ELSE [data |-> FALSE, error |-> Some([message |-> "upsert failed"])]

\* value || null
OrNull(v) == IF v = Some(<<>>) THEN Null ELSE v

\* part_002 383-388
FeatureDetails(token) ==
    [value_text |-> OrNull(token.value_modifier),
     is_present |-> token.is_present,
     typicality |-> "common",
     weight     |-> 1]

\* part_002 400-404: { ...token, added: !addError, addError: addError?.message }
AttachedEntry(token, addError) ==
    [token |-> token,
     added |-> addError = Null,
     addError |-> IF addError = Null THEN Null ELSE Some(addError[1].message),
     needsManualCreation |-> FALSE]

\* part_002 407-411: { ...token, added: false, needsManualCreation: true }
UnresolvedEntry(token) ==
    [token |-> token, added |-> FALSE, addError |-> Null, needsManualCreation |-> TRUE]

\* Mutant of PushUnresolved: a token without a canonical feature is skipped.
SkipUnresolved(processed, token) == processed

\* part_002 405-412: the else branch of the loop body
PushUnresolved(processed, token) == Append(processed, UnresolvedEntry(token))

\* Mutant of AfterIssue: the attach call is not awaited.
AfterIssueNoAwait == "loop"

\* part_002 390: the loop is suspended on `await addFeatureToDisease(...)`
AfterIssue == "awaiting"

\* Mutant of ResumeIndex: the loop is left when an attach call has failed.
ResumeIndexBreakOnError(next, n, failed) == IF failed THEN n + 1 ELSE next

\* part_002 396-398: a failed attach call is logged and the loop goes on with
\* the next token
ResumeIndex(next, n, failed) == next

\* Mutant of SettleAfterThrow: the catch block rethrows (as in useExport).
SettleAfterRethrow == "rejected"

\* part_002 416-421: the catch block swallows what was thrown, so the promise
\* of processTokenInput resolves
SettleAfterThrow == "resolved"

\* Mutant of GuardReturns: only the missing diseaseId returns early
\* (if (!diseaseId) return).
GuardDiseaseOnly(tokenString, diseaseId) == diseaseId = Null

\* part_002 368: if (!tokenString.trim() || !diseaseId) return
GuardReturns(tokenString, diseaseId) == Trim(tokenString) = <<>> \/ diseaseId = Null

SettledRecord(how, outcome) ==
    [input |-> wInput, target |-> wTarget, how |-> how, outcome |-> outcome]

\* The component is rendered with another diseaseId; a running invocation
\* keeps the one it closed over (useCallback, part_002 422).
SetDisease ==
    \E d \in DiseaseIds :
        /\ d # wDiseaseId
        /\ wDiseaseId' = d
        /\ UNCHANGED <<wPc, wInput, wTarget, wParsed, wIdx, wProcessed, wInFlight,
                       wProcessing, wResults, wError, wAttachLog, wRpcs, wSettled>>
        /\ UNCHANGED wFrame

\* part_002 367-375: processTokenInput(tokenString) up to the parse rpc
ProcessTokenInput ==
    \E str \in WorkflowInputs :
        /\ wPc = "idle"
        /\ Len(wSettled) < MaxRuns
        /\ wInput' = str
        /\ wTarget' = wDiseaseId
        /\ IF GuardReturns(str, wDiseaseId)
           THEN /\ wSettled' = Append(wSettled,
                       [input |-> str, target |-> wDiseaseId,
                        how |-> "guard", outcome |-> "resolved"])
                /\ UNCHANGED <<wPc, wParsed, wIdx, wProcessed, wProcessing, wResults,
                               wError, wAttachLog, wRpcs>>
           ELSE /\ wProcessing' = TRUE
                /\ wError' = Null
                /\ wRpcs' = Append(wRpcs, str)
                /\ wPc' = "parsing"
                /\ wParsed' = <<>>
                /\ wIdx' = 1
                /\ wProcessed' = <<>>
                /\ wAttachLog' = <<>>
                /\ UNCHANGED <<wResults, wSettled>>
        /\ UNCHANGED <<wDiseaseId, wInFlight>>
        /\ UNCHANGED wFrame

\* part_002 375-379 and 416-421: the parse rpc answers
ParseRespond ==
    \E answer \in ParseAnswers(wInput) :
        /\ wPc = "parsing"
        /\ LET r == parseMedicalTokens(answer)
           IN  IF r.error
               THEN /\ wError' = Some("parseError")            \* throw; catch
                    /\ wResults' = <<>>
                    /\ wProcessing' = FALSE                    \* finally
                    /\ wPc' = "idle"
                    /\ wSettled' = Append(wSettled, SettledRecord("parseError", SettleAfterThrow))
                    /\ UNCHANGED <<wParsed, wIdx, wProcessed>>
               ELSE /\ wParsed' = IF r.data = Null THEN <<>> ELSE r.data[1]
                    /\ wIdx' = 1
                    /\ wProcessed' = <<>>
                    /\ wPc' = "loop"
                    /\ UNCHANGED <<wError, wResults, wProcessing, wSettled>>
        /\ UNCHANGED <<wDiseaseId, wInput, wTarget, wInFlight, wAttachLog, wRpcs>>
        /\ UNCHANGED wFrame

\* part_002 380-415: one turn of the loop, or its end
LoopStep ==
    /\ wPc = "loop"
    /\ IF wIdx > Len(wParsed)
       THEN /\ wResults' = wProcessed                           \* setResults
            /\ wProcessing' = FALSE                             \* finally
            /\ wPc' = "idle"
            /\ wSettled' = Append(wSettled, SettledRecord("done", "resolved"))
            /\ UNCHANGED <<wIdx, wProcessed, wInFlight, wAttachLog>>
       ELSE LET token == wParsed[wIdx]
            IN  IF token.canonical_feature_id # Null
                THEN /\ wInFlight' = wInFlight \cup {wIdx}
                     /\ wAttachLog' = Append(wAttachLog,
                            [ev |-> "issue", idx |-> wIdx, ok |-> TRUE,
                             disease |-> wTarget,
                             feature |-> token.canonical_feature_id,
                             details |-> FeatureDetails(token)])
                     /\ wIdx' = wIdx + 1
                     /\ wPc' = AfterIssue
                     /\ UNCHANGED <<wProcessed, wResults, wProcessing, wSettled>>
                ELSE /\ wProcessed' = PushUnresolved(wProcessed, token)
                     /\ wIdx' = wIdx + 1
                     /\ UNCHANGED <<wPc, wInFlight, wAttachLog, wResults,
                                    wProcessing, wSettled>>
    /\ UNCHANGED <<wDiseaseId, wInput, wTarget, wParsed, wError, wRpcs>>
    /\ UNCHANGED wFrame

\* part_002 390-404: an attach call answers and the loop body goes on
AttachRespond ==
    \E i \in wInFlight, ok \in BOOLEAN :
        LET r == addFeatureToDisease(ok)
        IN  /\ wInFlight' = wInFlight \ {i}
            /\ wAttachLog' = Append(wAttachLog,
                   [ev |-> "done", idx |-> i, ok |-> ok,
                    disease |-> wTarget,
                    feature |-> wParsed[i].canonical_feature_id,
                    details |-> FeatureDetails(wParsed[i])])
            /\ wProcessed' = Append(wProcessed, AttachedEntry(wParsed[i], r.error))
            /\ IF wPc = "awaiting"
               THEN /\ wPc' = "loop"
                    /\ wIdx' = ResumeIndex(wIdx, Len(wParsed), r.error # Null)
               ELSE UNCHANGED <<wPc, wIdx>>
            /\ UNCHANGED <<wDiseaseId, wInput, wTarget, wParsed, wProcessing, wResults,
                           wError, wRpcs, wSettled>>
            /\ UNCHANGED wFrame

WIdle ==
    /\ wDiseaseId = Null
    /\ wPc = "idle"
    /\ wInput = <<>>
    /\ wTarget = Null
    /\ wParsed = <<>>
    /\ wIdx = 1
    /\ wProcessed = <<>>
    /\ wInFlight = {}
    /\ wProcessing = FALSE
    /\ wResults = <<>>
    /\ wError = Null
    /\ wAttachLog = <<>>
    /\ wRpcs = <<>>
    /\ wSettled = <<>>

WNext ==
    \/ SetDisease
    \/ ProcessTokenInput
    \/ ParseRespond
    \/ LoopStep
    \/ AttachRespond

(***************************************************************************)
(* TokenInput.handleSubmit (TokenInput.jsx 107-137) over                   *)
(* useTokenParser.parseTokens (part_002 77-104)                            *)
(***************************************************************************)
MaxSubmits == 2

\* JavaScript values: an array, or an object with data and error properties.
ArrayOf(items) == [kind |-> "array", items |-> items]
ObjectOf(data, error) == [kind |-> "object", data |-> data, error |-> error]

\* const { data, error } = value: an array has neither property, so both
\* names are undefined (Null here: the code tests them for truthiness only).
Destructure(value) ==
    IF value.kind = "object"
    THEN [data |-> value.data, error |-> value.error]
    ELSE [data |-> Null, error |-> Null]

\* part_002 87-93: what parseTokens returns for the {data, error} of
\* parseMedicalTokens: `data || []`, or `[]` from the catch block
ParseTokensReturn(r) ==
    IF r.error THEN ArrayOf(<<>>)
    ELSE IF r.data = Null THEN ArrayOf(<<>>)
    ELSE ArrayOf(r.data[1])

\* tokens || []
OrEmpty(tokens) == IF tokens = Null THEN <<>> ELSE tokens[1]

\* TokenInput.jsx 124: tokens?.filter(t => t.canonical_feature_id) || []
SuccessfulTokens(tokens) ==
    SelectSeq(OrEmpty(tokens), LAMBDA t : t.canonical_feature_id # Null)

\* TokenInput.jsx 27: words[i].replace(/^[+-]/, '')
WithoutLeadingSign(word) ==
    IF StartsWith(word, "+") \/ StartsWith(word, "-") THEN Tail(word) ELSE word

\* TokenInput.jsx 24-35: the loop over the words, from word i at position
\* currentPos
RECURSIVE WordAtCursor(_, _, _, _)
WordAtCursor(words, i, currentPos, cursorPos) ==
    IF i > Len(words) THEN <<>>
    ELSE LET wordEnd == currentPos + Len(words[i])
         IN  IF cursorPos <= wordEnd THEN WithoutLeadingSign(words[i])
             ELSE WordAtCursor(words, i + 1, wordEnd + 1, cursorPos)

\* TokenInput.jsx 19-38: getCurrentWord().word for the cursor at cursorPos
getCurrentWord(input, cursorPos) ==
    WordAtCursor(SplitWhitespace(input), 1, 0, cursorPos)

\* TokenInput.jsx 41-43: the argument passed to useFeatureSearch on a render
SuggestionQuery(input, cursorPos) ==
    LET word == getCurrentWord(input, cursorPos)
    IN  IF Len(word) >= 2 THEN word ELSE <<>>

\* part_002 22: useState(initialQuery): the argument is the state on the
\* first render only; later renders keep the state
UseState(mounted, state, initial) == IF mounted THEN state ELSE initial

\* TokenInput.jsx 189: onChange (the field is disabled while isProcessing),
\* and the render that follows with the cursor at the end of the text
TypeInput ==
    \E text \in WorkflowInputs :
        /\ hPc = "idle"
        /\ text # hInput
        /\ hInput' = text
        /\ sQuery' = UseState(TRUE, sQuery, SuggestionQuery(text, Len(text)))
        /\ UNCHANGED <<hDiseaseId, hPc, hProcessedTokens, hIsProcessing, hParsing,
                       hParseError, hToasts, hAdded, hAnswers>>
        /\ UNCHANGED <<sNow, sResults, sLoading, sError, sTimeoutId, sTimers,
                       sCalls, sLookups, sDelivered>>
        /\ UNCHANGED <<tkVars, wVars, cVars>>

\* TokenInput.jsx 107-114 and part_002 81-88: handleSubmit up to the parse rpc
HandleSubmit ==
    /\ hPc = "idle"
    /\ Len(hAnswers) < MaxSubmits
    /\ ~(Trim(hInput) = <<>> \/ hDiseaseId = Null)              \* else: return
    /\ hIsProcessing' = TRUE
    /\ hParsing' = TRUE
    /\ hParseError' = Null
    /\ hPc' = "parsing"
    /\ UNCHANGED <<hDiseaseId, hInput, hProcessedTokens, hToasts, hAdded, hAnswers>>
    /\ UNCHANGED hFrame

\* part_002 88-96 and TokenInput.jsx 114-136: the parse rpc answers
SubmitParseRespond ==
    \E answer \in ParseAnswers(Trim(hInput)) :
        /\ hPc = "parsing"
        /\ hAnswers' = Append(hAnswers, answer)
        /\ LET r == parseMedicalTokens(answer)
               d == Destructure(ParseTokensReturn(r))
               successful == SuccessfulTokens(d.data)
           IN  /\ hParseError' = IF r.error THEN Some("parseError") ELSE Null
               /\ IF d.error # Null
                  THEN /\ hToasts' = Append(hToasts, "error")
                       /\ UNCHANGED <<hProcessedTokens, hAdded, hInput>>
                  ELSE IF Len(successful) > 0
                       THEN /\ hAdded' = Append(hAdded, successful)
                            /\ hInput' = <<>>
                            /\ hProcessedTokens' = <<>>
                            /\ hToasts' = Append(hToasts, "success")
                       ELSE /\ hProcessedTokens' = OrEmpty(d.data)
                            /\ UNCHANGED <<hAdded, hInput, hToasts>>
        /\ hParsing' = FALSE
        /\ hIsProcessing' = FALSE
        /\ hPc' = "idle"
        /\ UNCHANGED hDiseaseId
        /\ UNCHANGED hFrame

HIdle ==
    /\ hDiseaseId = Null
    /\ hInput = <<>>
    /\ hPc = "idle"
    /\ hProcessedTokens = <<>>
    /\ hIsProcessing = FALSE
    /\ hParsing = FALSE
    /\ hParseError = Null
    /\ hToasts = <<>>
    /\ hAdded = <<>>
    /\ hAnswers = <<>>

HNext ==
    \/ TypeInput
    \/ HandleSubmit
    \/ SubmitParseRespond

(***************************************************************************)
(* BackendService: searchFeatures, getDiseaseStats and the cache they      *)
(* share (backendConfig.js 54-91, 135-157, 228-238, 261-276)               *)
(***************************************************************************)
MaxRequests == 3
CacheMaxTime == 4

\* BACKEND_CONFIG.PERFORMANCE.CACHE_TTL_MS: 5 * 60 * 1000 ms, in ticks of 100 s
CacheTtl == 3
\* BACKEND_CONFIG.PERFORMANCE.MAX_SEARCH_RESULTS
MaxSearchResults == 10

CacheQueries == {<<"a", "b">>}
CacheLimits == {MaxSearchResults}
CacheDiseaseIds == {<<"d", "1">>}

\* The tables a subscription can name.
Tables == {<<"d", "i", "s", "e", "a", "s", "e", "s">>,
           <<"f", "e", "a", "t", "u", "r", "e", "s">>}

SearchPrefix == <<"s", "e", "a", "r", "c", "h", ":">>
StatsPrefix == <<"s", "t", "a", "t", "s", ":">>

\* The arguments clearCacheByPrefix is called with from outside the class.
Prefixes == {SearchPrefix, StatsPrefix, <<"s">>, <<"a", "b">>}

DigitChars == <<"0", "1", "2", "3", "4", "5", "6", "7", "8", "9">>

\* `${limit}`: the decimal digits of a natural number
RECURSIVE Decimal(_)
Decimal(n) ==
    IF n < 10 THEN <<DigitChars[n + 1]>>
    ELSE Decimal(n \div 10) \o <<DigitChars[(n % 10) + 1]>>

\* backendConfig.js 65: `search:${query}:${limit}`
SearchKey(query, limit) ==
    <<"s", "e", "a", "r", "c", "h", ":">> \o query \o <<":">> \o Decimal(limit)

\* backendConfig.js 136: `stats:${diseaseId}`
StatsKey(diseaseId) == <<"s", "t", "a", "t", "s", ":">> \o diseaseId

\* Map: has, set, delete, clear
EmptyCache == <<>>
CacheHas(cache, key) == key \in DOMAIN cache
CacheSet(cache, key, value) ==
    [k \in (DOMAIN cache) \cup {key} |-> IF k = key THEN value ELSE cache[k]]
CacheDelete(cache, key) == [k \in (DOMAIN cache) \ {key} |-> cache[k]]

\* String.prototype.startsWith
KeyStartsWith(key, prefix) ==
    Len(prefix) <= Len(key) /\ SubSeq(key, 1, Len(prefix)) = prefix

\* Mutant of DeleteByPrefix: the whole cache is cleared.
DeleteEverything(cache, prefix) == EmptyCache

\* backendConfig.js 233-237: the loop over the entries
RECURSIVE DeleteMatching(_, _, _)
DeleteMatching(cache, keys, prefix) ==
    IF keys = {} THEN cache
    ELSE LET key == CHOOSE k \in keys : TRUE
         IN  DeleteMatching(IF KeyStartsWith(key, prefix) THEN CacheDelete(cache, key)
                            ELSE cache,
                            keys \ {key}, prefix)

\* backendConfig.js 232-238: clearCacheByPrefix(prefix)
DeleteByPrefix(cache, prefix) == DeleteMatching(cache, DOMAIN cache, prefix)

\* A cache value is the result object itself: `by` is the request that
\* created the object, `data` what the object holds now.
\* A request record: `from` is the request whose object was returned, `data`
\* what that object held when it was returned (Null: nothing returned yet).

\* backendConfig.js 64-75: searchFeatures(query, limit) up to its return on a
\* cache hit, or up to the rpc on a miss
CacheSearchFeatures ==
    \E q \in CacheQueries, limit \in CacheLimits :
        LET key == SearchKey(q, limit)
            id == Len(cRequests) + 1
        IN  /\ Len(cRequests) < MaxRequests
            /\ IF CacheHas(cCache, key)
               THEN /\ cRequests' = Append(cRequests,
                           [key |-> key, at |-> cNow, st |-> "hit", rpc |-> FALSE,
                            from |-> cCache[key].by, stored |-> cCache[key].at,
                            data |-> Some(cCache[key].data)])
                    /\ UNCHANGED cRpcs
               ELSE /\ cRequests' = Append(cRequests,
                           [key |-> key, at |-> cNow, st |-> "inflight", rpc |-> TRUE,
                            from |-> id, stored |-> cNow, data |-> Null])
                    /\ cRpcs' = Append(cRpcs, [by |-> id, fn |-> "search_features_advanced",
                                               args |-> <<q, limit>>])
            /\ UNCHANGED <<cNow, cCache, cTimers, cSubscribers, cInvalidated, cStored, cClearedUpTo>>
            /\ UNCHANGED cFrame

\* backendConfig.js 77-90: the rpc of a searchFeatures request r answers
CacheSearchRespond ==
    \E r \in 1..Len(cRequests), outcome \in LookupOutcomes :
        /\ cRequests[r].st = "inflight"
        /\ KeyStartsWith(cRequests[r].key, SearchPrefix)
        /\ IF outcome = "error"
           THEN /\ cRequests' = [cRequests EXCEPT ![r].st = "failed",
                                                  ![r].data = Some("null")]
                /\ UNCHANGED <<cCache, cTimers, cStored>>
           ELSE /\ cCache' = CacheSet(cCache, cRequests[r].key,
                                      [data |-> outcome, error |-> Null, by |-> r,
                                       at |-> cNow])
                /\ cTimers' = cTimers \cup
                       {[by |-> r, key |-> cRequests[r].key, due |-> cNow + CacheTtl]}
                /\ cStored' = CacheSet(cStored, cRequests[r].key, cNow)
                /\ cRequests' = [cRequests EXCEPT ![r].st = "ok",
                                                  ![r].stored = cNow,
                                                  ![r].data = Some(outcome)]
        /\ UNCHANGED <<cNow, cRpcs, cSubscribers, cInvalidated, cClearedUpTo>>
        /\ UNCHANGED cFrame

\* backendConfig.js 135-144: getDiseaseStats(diseaseId) up to its return on a
\* cache hit, or up to the rpc on a miss
GetDiseaseStats ==
    \E d \in CacheDiseaseIds :
        LET key == StatsKey(d)
            id == Len(cRequests) + 1
        IN  /\ Len(cRequests) < MaxRequests
            /\ IF CacheHas(cCache, key)
               THEN /\ cRequests' = Append(cRequests,
                           [key |-> key, at |-> cNow, st |-> "hit", rpc |-> FALSE,
                            from |-> cCache[key].by, stored |-> cCache[key].at,
                            data |-> Some(cCache[key].data)])
                    /\ UNCHANGED cRpcs
               ELSE /\ cRequests' = Append(cRequests,
                           [key |-> key, at |-> cNow, st |-> "inflight", rpc |-> TRUE,
                            from |-> id, stored |-> cNow, data |-> Null])
                    /\ cRpcs' = Append(cRpcs, [by |-> id, fn |-> "get_disease_stats",
                                               args |-> <<d>>])
            /\ UNCHANGED <<cNow, cCache, cTimers, cSubscribers, cInvalidated, cStored, cClearedUpTo>>
            /\ UNCHANGED cFrame

\* backendConfig.js 146-156: the rpc of a getDiseaseStats request r answers;
\* the result is stored without any expiry
StatsRespond ==
    \E r \in 1..Len(cRequests), outcome \in LookupOutcomes :
        /\ cRequests[r].st = "inflight"
        /\ KeyStartsWith(cRequests[r].key, StatsPrefix)
        /\ IF outcome = "error"
           THEN /\ cRequests' = [cRequests EXCEPT ![r].st = "failed",
                                                  ![r].data = Some("null")]
                /\ UNCHANGED <<cCache, cStored>>
           ELSE /\ cCache' = CacheSet(cCache, cRequests[r].key,
                                      [data |-> outcome, error |-> Null, by |-> r,
                                       at |-> cNow])
                /\ cStored' = CacheSet(cStored, cRequests[r].key, cNow)
                /\ cRequests' = [cRequests EXCEPT ![r].st = "ok",
                                                  ![r].stored = cNow,
                                                  ![r].data = Some(outcome)]
        /\ UNCHANGED <<cNow, cTimers, cRpcs, cSubscribers, cInvalidated, cClearedUpTo>>
        /\ UNCHANGED cFrame

\* The caller of request r changes the result object it was handed
\* (result.data = ..., result.data.push(...)): the object the cache holds is
\* the same object.
MutateResult ==
    \E r \in 1..Len(cRequests) :
        /\ cRequests[r].st \in {"ok", "hit"}
        /\ cCache' = [k \in DOMAIN cCache |->
                         IF cCache[k].by = cRequests[r].from
                         THEN [cCache[k] EXCEPT !.data = "mutated"]
                         ELSE cCache[k]]
        /\ UNCHANGED <<cNow, cTimers, cRequests, cRpcs, cSubscribers, cInvalidated, cStored, cClearedUpTo>>
        /\ UNCHANGED cFrame

\* backendConfig.js 83-85: an expiry timer fires; a setTimeout callback runs
\* no earlier than its delay
CacheExpire ==
    \E t \in cTimers :
        /\ cNow >= t.due
        /\ cCache' = CacheDelete(cCache, t.key)
        /\ cTimers' = cTimers \ {t}
        /\ UNCHANGED <<cNow, cRequests, cRpcs, cSubscribers, cInvalidated, cStored, cClearedUpTo>>
        /\ UNCHANGED cFrame

\* backendConfig.js 228-230, 355-359: clearCache
ClearCache ==
    /\ cCache' = EmptyCache
    /\ cStored' = EmptyCache
    /\ cClearedUpTo' = Len(cRequests)
    /\ UNCHANGED <<cNow, cTimers, cRequests, cRpcs, cSubscribers, cInvalidated>>
    /\ UNCHANGED cFrame

\* backendConfig.js 232-238: clearCacheByPrefix(prefix) called directly
ClearCacheByPrefix ==
    \E prefix \in Prefixes :
        /\ cCache' = DeleteByPrefix(cCache, prefix)
        /\ cInvalidated' = Some([by |-> "call", arg |-> prefix,
                                 before |-> cCache, after |-> cCache'])
        /\ cStored' = DeleteByPrefix(cStored, prefix)
        /\ UNCHANGED <<cNow, cTimers, cRequests, cRpcs, cSubscribers, cClearedUpTo>>
        /\ UNCHANGED cFrame

\* backendConfig.js 261-276: subscribeToChanges(table, callback)
SubscribeToChanges ==
    \E table \in Tables :
        /\ cSubscribers' = cSubscribers \cup {table}
        /\ UNCHANGED <<cNow, cCache, cTimers, cRequests, cRpcs, cInvalidated,
                       cStored, cClearedUpTo>>
        /\ UNCHANGED cFrame

\* backendConfig.js 266-270: a change of a subscribed table is notified:
\* clearCacheByPrefix(table), then the subscriber's callback, which runs
\* with the cache in `after`
ChangeNotification ==
    \E table \in cSubscribers :
        /\ cCache' = DeleteByPrefix(cCache, table)
        /\ cInvalidated' = Some([by |-> "change", arg |-> table,
                                 before |-> cCache, after |-> cCache'])
        /\ cStored' = DeleteByPrefix(cStored, table)
        /\ UNCHANGED <<cNow, cTimers, cRequests, cRpcs, cSubscribers, cClearedUpTo>>
        /\ UNCHANGED cFrame

CacheTick ==
    /\ cNow < CacheMaxTime
    /\ cNow' = cNow + 1
    /\ UNCHANGED <<cCache, cTimers, cRequests, cRpcs, cSubscribers, cInvalidated, cStored, cClearedUpTo>>
    /\ UNCHANGED cFrame

CIdle ==
    /\ cNow = 0
    /\ cCache = EmptyCache
    /\ cTimers = {}
    /\ cRequests = <<>>
    /\ cRpcs = <<>>
    /\ cSubscribers = {}
    /\ cInvalidated = Null
    /\ cStored = EmptyCache
    /\ cClearedUpTo = 0

\* The search cache over time: lookups, answers, callers that change a
\* result, expiry, clearCache.
CNext ==
    \/ CacheSearchFeatures
    \/ CacheSearchRespond
    \/ MutateResult
    \/ CacheExpire
    \/ ClearCache
    \/ CacheTick

\* The cache as a store, within one tick of the clock (no entry is due to
\* expire): lookups and answers of both kinds, invalidation by prefix and by
\* change notification.
StoreNext ==
    \/ CacheSearchFeatures
    \/ CacheSearchRespond
    \/ GetDiseaseStats
    \/ StatsRespond
    \/ ClearCacheByPrefix
    \/ SubscribeToChanges
    \/ ChangeNotification

(***************************************************************************)
(* Claims                                                                  *)
(***************************************************************************)

\* The token a bare word w tokenizes to: w itself, present, no modifier, no
\* numeric value.
BareToken(w) ==
    [original |-> w, cleanToken |-> w, isPresent |-> TRUE,
     valueModifier |-> Null, numericValue |-> Null]

\* w is of the form <one or more characters><operator><digits>.
IsComparisonForm(w) ==
    \E k \in 2..Len(w) :
        /\ w[k] \in {"<", ">"}
        /\ \/ k < Len(w) /\ \A j \in (k + 1)..Len(w) : w[j] \in Digits
           \/ k + 1 < Len(w) /\ w[k + 1] = "=" /\ \A j \in (k + 2)..Len(w) : w[j] \in Digits

\* w carries no marker of its own: it is not empty, has no leading sign, no
\* trailing directional glyph and is not of the comparison form.
IsPlainClean(w) ==
    /\ w # <<>>
    /\ w[1] \notin {"+", "-"}
    /\ w[Len(w)] \notin {Up, Down}
    /\ ~IsComparisonForm(w)

\* C10 (as stated): tokenizing the cleanToken of any produced token alone
\* yields exactly one token with the same cleanToken, isPresent = true, no
\* value modifier and no numeric value.
C10_Idempotent ==
    tkPc = "reparsed" => tkReparsed = <<BareToken(tkClean)>>

\* C10 (amended): the same, for the produced tokens whose cleanToken carries
\* no marker of its own (non-empty, no leading + or -, no trailing up/down
\* glyph, not itself of the form word-operator-digits).
C10_IdempotentOnPlain ==
    (tkPc = "reparsed" /\ IsPlainClean(tkClean)) => tkReparsed = <<BareToken(tkClean)>>

\* C10 witness: a token typed with a sign and a suffix whose plain cleanToken
\* was tokenized again.
C10_Witness ==
    /\ tkPc = "reparsed"
    /\ IsPlainClean(tkClean)
    /\ \E i \in 1..Len(tkParsed) :
          /\ tkParsed[i].cleanToken = tkClean
          /\ ~tkParsed[i].isPresent
          /\ tkParsed[i].valueModifier # Null
    /\ tkReparsed = <<BareToken(tkClean)>>

\* The shapes a value modifier can take.
Arrows == {<<Up>>, <<Down>>}
Comparisons == {<<"<">>, <<"<", "=">>, <<">">>, <<">", "=">>}

\* C11: every produced token has no modifier and no numeric value, or a
\* directional arrow and no numeric value, or a comparison operator and a
\* numeric value; the three cases exclude each other, so a numeric value is
\* never present without a comparison operator.
C11_ModifierShape ==
    tkPc # "input" =>
        \A i \in 1..Len(tkParsed) :
            LET t == tkParsed[i]
            IN  \/ t.valueModifier = Null /\ t.numericValue = Null
                \/ t.valueModifier \in {Some(a) : a \in Arrows} /\ t.numericValue = Null
                \/ t.valueModifier \in {Some(c) : c \in Comparisons} /\ t.numericValue # Null

\* C11 witness: a fragment with a comparison and a trailing arrow was
\* tokenized to a comparison token with its numeric value.
C11_Witness ==
    /\ tkPc = "parsed"
    /\ \E i \in 1..Len(tkParsed) :
          /\ EndsWith(tkParsed[i].original, Up)
          /\ tkParsed[i].valueModifier = Some(<<"<">>)
          /\ tkParsed[i].numericValue # Null

\* C12: every produced token has a non-empty cleanToken.
C12_CleanTextNonEmpty ==
    tkPc # "input" => \A i \in 1..Len(tkParsed) : tkParsed[i].cleanToken # <<>>

\* A number value, as opposed to a string (typeof).
JsNumber(value) == [type |-> "number", value |-> value]

\* The number a digit run denotes.
RECURSIVE NumberOf(_)
NumberOf(digits) ==
    IF digits = <<>> THEN 0
    ELSE 10 * NumberOf(DropLast(digits))
         + (CHOOSE n \in 0..9 : DigitChars[n + 1] = digits[Len(digits)])

Letters == {"a"}

\* C13: a fragment made of a word, a comparison operator and a digit run is
\* tokenized to cleanToken = the word, valueModifier = the operator and
\* numericValue = the number the digit run denotes.
C13_ComparisonFields ==
    tkPc # "input" =>
        \A i \in 1..Len(tkParsed) :
            LET t == tkParsed[i]
                o == t.original
            IN  \A w \in 1..Len(o), op \in Comparisons :
                    LET word == SubSeq(o, 1, w)
                        ds == SubSeq(o, w + Len(op) + 1, Len(o))
                    IN  (/\ \A k \in 1..w : word[k] \in Letters
                         /\ ds # <<>>
                         /\ AllDigits(ds)
                         /\ o = word \o op \o ds)
                          => /\ t.cleanToken = word
                             /\ t.valueModifier = Some(op)
                             /\ t.numericValue = Some(JsNumber(NumberOf(ds)))

\* The maximal runs of non-whitespace characters of a text, in order.
RECURSIVE RunLength(_)
RunLength(s) ==
    IF s = <<>> \/ Head(s) \in Whitespace THEN 0 ELSE 1 + RunLength(Tail(s))

RECURSIVE NonWhitespaceRuns(_)
NonWhitespaceRuns(s) ==
    IF s = <<>> THEN <<>>
    ELSE IF Head(s) \in Whitespace THEN NonWhitespaceRuns(Tail(s))
         ELSE LET n == RunLength(s)
              IN  <<SubSeq(s, 1, n)>> \o NonWhitespaceRuns(SubSeq(s, n + 1, Len(s)))

\* C14: the originals of the produced tokens are the maximal runs of
\* non-whitespace characters of the input, in input order; an empty or
\* whitespace-only input gives no token.
C14_OneTokenPerFragment ==
    tkPc # "input" =>
        /\ Len(tkParsed) = Len(NonWhitespaceRuns(tkInput))
        /\ \A i \in 1..Len(tkParsed) : tkParsed[i].original = NonWhitespaceRuns(tkInput)[i]

\* C14 witness: an input with leading whitespace and two fragments gave two
\* tokens.
C14_Witness ==
    /\ tkPc = "parsed"
    /\ StartsWith(tkInput, " ")
    /\ Len(tkParsed) = 2
    /\ tkParsed[1].original # tkParsed[2].original

\* A fragment without its one leading sign, if it has one.
WithoutSign(o) == IF o # <<>> /\ o[1] \in {"+", "-"} THEN SubSeq(o, 2, Len(o)) ELSE o

\* C21: when the fragment without its sign ends with the up or down glyph,
\* the token has that glyph as modifier, no numeric value, and cleanToken is
\* the rest without the glyph: no comparison match is attempted.
C21_DirectionBeforeComparison ==
    tkPc # "input" =>
        \A i \in 1..Len(tkParsed) :
            LET t == tkParsed[i]
                rest == WithoutSign(t.original)
            IN  (rest # <<>> /\ rest[Len(rest)] \in {Up, Down}) =>
                    /\ t.valueModifier = Some(<<rest[Len(rest)]>>)
                    /\ t.numericValue = Null
                    /\ t.cleanToken = SubSeq(rest, 1, Len(rest) - 1)

\* s begins with p.
IsPrefixOf(p, s) == Len(p) <= Len(s) /\ SubSeq(s, 1, Len(p)) = p

\* C22: isPresent is false exactly when the fragment starts with "-"; one
\* leading sign at most is stripped, so cleanToken starts where the fragment
\* without that one sign starts, further signs included, and is that whole
\* rest when the rest carries no suffix and no comparison.
C22_OnePrefixCharacter ==
    tkPc # "input" =>
        \A i \in 1..Len(tkParsed) :
            LET t == tkParsed[i]
                rest == WithoutSign(t.original)
            IN  /\ t.isPresent = ~(t.original[1] = "-")
                /\ IsPrefixOf(t.cleanToken, rest)
                /\ (t.valueModifier = Null) => t.cleanToken = rest

\* C22 witness: the fragment "+-a" gave isPresent = true and cleanToken "-a".
C22_Witness ==
    /\ tkPc = "parsed"
    /\ \E i \in 1..Len(tkParsed) :
          /\ tkParsed[i].original = <<"+", "-", "a">>
          /\ tkParsed[i].isPresent
          /\ tkParsed[i].cleanToken = <<"-", "a">>

\* Call c reached the lookup service / handed a result to its caller.
Searched(c) == \E i \in 1..Len(sLookups) : sLookups[i].call = c
Delivered(c) == \E i \in 1..Len(sDelivered) : sDelivered[i].call = c

\* C1: of two calls of the debounced search made less than the debounce delay
\* apart, the earlier one never reaches the lookup service and never delivers
\* a result; every lookup and every delivery carries the arguments of the
\* call it belongs to.
C1_OnlyLaterCallDelivered ==
    /\ \A c1, c2 \in 1..Len(sCalls) :
          (c1 < c2 /\ sCalls[c2].at - sCalls[c1].at < DebounceDelay)
             => (~Searched(c1) /\ ~Delivered(c1))
    /\ \A i \in 1..Len(sLookups) :
          /\ sLookups[i].term = sCalls[sLookups[i].call].term
          /\ sLookups[i].limit = SearchLimit
    /\ \A i \in 1..Len(sDelivered) :
          sDelivered[i].res.term = sCalls[sDelivered[i].call].term

\* C1 witness: two calls less than the delay apart, the later one has
\* delivered its rows and they are the results shown.
C1_Witness ==
    \E c1, c2 \in 1..Len(sCalls) :
        /\ c1 < c2
        /\ sCalls[c2].at - sCalls[c1].at < DebounceDelay
        /\ sCalls[c1].term # sCalls[c2].term
        /\ sCalls[c2].st = "settled"
        /\ sResults = [kind |-> "data", term |-> sCalls[c2].term]

\* C2: a result is never delivered for a call that a newer call has
\* superseded by the time the result arrives.
C2_SupersededNeverDelivered ==
    \A i \in 1..Len(sDelivered) : sDelivered[i].newest = sDelivered[i].call

\* C15: no lookup is ever sent for a term shorter than 2 characters.
C15_NoShortLookup ==
    \A i \in 1..Len(sLookups) : Len(sLookups[i].term) >= 2

\* C16: a debounced search call made after a lookup for the same term and
\* limit has answered without error (so that its result is what a cache would
\* hold, the TTL being far longer than the time modelled) does not wait for
\* the debounce window and never reaches the lookup service.
C16_CacheHitImmediate ==
    \A d \in 1..Len(sDelivered), j \in 1..Len(sCalls) :
        (/\ j > sDelivered[d].newest
         /\ ~sDelivered[d].res.error
         /\ sDelivered[d].res.term = sCalls[j].term)
           => (sCalls[j].st = "settled" /\ ~Searched(j))

\* C28: while the query is empty (or blank) the results are empty: no
\* search started for an earlier query writes into them.
C28_EmptyQueryEmptyResults ==
    Trim(sQuery) = <<>> => sResults = EmptyResults

\* C3: of two searchFeatures calls with the same query and limit made less
\* than the cache TTL apart, at most one invokes the lookup service.
C3_AtMostOneLookupWithinTtl ==
    \A r1, r2 \in 1..Len(cRequests) :
        (/\ r1 < r2
         /\ cRequests[r1].key = cRequests[r2].key
         /\ cRequests[r2].at - cRequests[r1].at < CacheTtl)
           => ~(cRequests[r1].rpc /\ cRequests[r2].rpc)

\* C17: no searchFeatures call made at or after the expiry of a cache entry
\* (the time it was stored plus the TTL) is answered from that entry.
C17_NoHitAfterExpiry ==
    \A r \in 1..Len(cRequests) :
        cRequests[r].st = "hit" => cRequests[r].at < cRequests[r].stored + CacheTtl

\* key begins with prefix, character by character.
HasPrefix(key, prefix) ==
    \A i \in 1..Len(prefix) : i <= Len(key) /\ key[i] = prefix[i]

\* C18: clearCacheByPrefix(prefix) removes exactly the entries whose key
\* begins with prefix and leaves every other entry with the value it had.
C18_PrefixClearExact ==
    cInvalidated # Null =>
        LET x == cInvalidated[1]
        IN  /\ DOMAIN x.after = {k \in DOMAIN x.before : ~HasPrefix(k, x.arg)}
            /\ \A k \in DOMAIN x.after : x.after[k] = x.before[k]

\* C18 witness: with a stats entry and a search entry cached,
\* clearCacheByPrefix("stats:") removed the one and left the other.
C18_Witness ==
    /\ cInvalidated # Null
    /\ cInvalidated[1].by = "call"
    /\ cInvalidated[1].arg = StatsPrefix
    /\ \E d \in CacheDiseaseIds : StatsKey(d) \in DOMAIN cInvalidated[1].before
    /\ DOMAIN cInvalidated[1].after = {SearchKey(<<"a", "b">>, MaxSearchResults)}

\* The key prefix under which the data of a table is cached: stats of
\* diseases under "stats:", search results of features under "search:".
EntityPrefix(table) ==
    IF table = <<"d", "i", "s", "e", "a", "s", "e", "s">> THEN StatsPrefix ELSE SearchPrefix

\* C19: when the callback of a change notification for a table runs, no
\* cache entry holding data of that table is left.
C19_ChangeRemovesEntityEntries ==
    (cInvalidated # Null /\ cInvalidated[1].by = "change") =>
        \A k \in DOMAIN cInvalidated[1].after :
            ~HasPrefix(k, EntityPrefix(cInvalidated[1].arg))

\* C24: every cached entry is due to expire: a timer that will delete its
\* key is pending (nothing else removes an entry that is never invalidated).
C24_EveryEntryExpires ==
    \A k \in DOMAIN cCache : \E t \in cTimers : t.key = k

\* C26: a key stored and not removed by clearCache or clearCacheByPrefix
\* since is in the cache until the TTL after its store has passed, so that a
\* searchFeatures call for it is a hit.
C26_LivesFullTtl ==
    \A k \in DOMAIN cStored :
        cNow < cStored[k] + CacheTtl => CacheHas(cCache, k)

\* C27: the cache holds no entry produced by a request that was made before
\* the last clearCache.
C27_NothingFromBeforeClear ==
    \A k \in DOMAIN cCache : cCache[k].by > cClearedUpTo

\* C20: a cache hit returns what the lookup that filled the entry returned,
\* whatever callers have done to the results handed to them since.
C20_CachedValuesAreCopies ==
    \A h \in 1..Len(cRequests) :
        cRequests[h].st = "hit" => cRequests[h].data = cRequests[cRequests[h].from].data

\* The invocation of processTokenInput that settled last, and how.
LastSettled == wSettled[Len(wSettled)]
WorkflowFinished(how) ==
    /\ wPc = "idle"
    /\ wSettled # <<>>
    /\ LastSettled.how = how

AttachIssued(i) ==
    \E p \in 1..Len(wAttachLog) : wAttachLog[p].ev = "issue" /\ wAttachLog[p].idx = i
AttachAnswered(i, ok) ==
    \E p \in 1..Len(wAttachLog) :
        wAttachLog[p].ev = "done" /\ wAttachLog[p].idx = i /\ wAttachLog[p].ok = ok

\* C4: when the canonical lookup of an invocation has failed, the result list
\* still holds one entry per token of the input, each not attached.
C4_LookupFailureKeepsBatch ==
    WorkflowFinished("parseError") =>
        /\ Len(wResults) = Len(Fragments(wInput))
        /\ \A i \in 1..Len(wResults) :
              /\ wResults[i].token.original_token = Fragments(wInput)[i]
              /\ ~wResults[i].added

\* C5: when an attach call has failed for a token, the finished invocation
\* reports every parsed token, the failed token with added = false and an
\* error note, and an attach call was issued for every later token that has a
\* canonical feature.
C5_AttachFailureDoesNotStop ==
    WorkflowFinished("done") =>
        \A i \in 1..Len(wParsed) :
            AttachAnswered(i, FALSE) =>
                /\ Len(wResults) = Len(wParsed)
                /\ \E p \in 1..Len(wResults) :
                      /\ wResults[p].token = wParsed[i]
                      /\ ~wResults[p].added
                      /\ wResults[p].addError # Null
                /\ \A j \in (i + 1)..Len(wParsed) :
                      wParsed[j].canonical_feature_id # Null => AttachIssued(j)

\* C5 witness: the attach call of the first token failed, and a later token
\* was attached and reported.
C5_Witness ==
    /\ WorkflowFinished("done")
    /\ AttachAnswered(1, FALSE)
    /\ \E j \in 2..Len(wParsed) : AttachAnswered(j, TRUE)
    /\ \E p \in 1..Len(wResults) : wResults[p].added

\* C6: the finished invocation reports one entry per parsed token, in the
\* order parsed, and an entry is attached exactly when its token has a
\* canonical feature and its attach call succeeded.
C6_OneResultPerTokenInOrder ==
    WorkflowFinished("done") =>
        /\ Len(wResults) = Len(wParsed)
        /\ \A i \in 1..Len(wResults) :
              /\ wResults[i].token = wParsed[i]
              /\ wResults[i].added <=>
                    (wParsed[i].canonical_feature_id # Null /\ AttachAnswered(i, TRUE))

\* C6 witness: one token with and one without a canonical feature give two
\* entries of which exactly one is attached.
C6_Witness ==
    /\ WorkflowFinished("done")
    /\ Len(wParsed) = 2
    /\ wParsed[1].canonical_feature_id = Null
    /\ wParsed[2].canonical_feature_id # Null
    /\ Len(wResults) = 2
    /\ ~wResults[1].added
    /\ wResults[2].added

\* C7: at most one attach call of an invocation is in flight, and the attach
\* calls are issued in token order, each after the one before it was answered.
C7_AttachCallsSequential ==
    /\ Cardinality(wInFlight) <= 1
    /\ \A p, q \in 1..Len(wAttachLog) :
          (p < q /\ wAttachLog[p].ev = "issue" /\ wAttachLog[q].ev = "issue")
             => /\ wAttachLog[p].idx < wAttachLog[q].idx
                /\ \E r \in (p + 1)..(q - 1) :
                      wAttachLog[r].ev = "done" /\ wAttachLog[r].idx = wAttachLog[p].idx

\* C7 witness: a second attach call is in flight after the first was answered.
C7_Witness ==
    /\ Len(wAttachLog) = 3
    /\ wAttachLog[1].ev = "issue"
    /\ wAttachLog[2].ev = "done"
    /\ wAttachLog[3].ev = "issue"
    /\ wInFlight = {wAttachLog[3].idx}

\* The display text of a token's value: the directional glyph, or the
\* comparison operator followed by the digits, or nothing.
DisplayValue(token) ==
    IF token.value_modifier = Null THEN Null
    ELSE IF token.numeric_value = Null THEN token.value_modifier
    ELSE Some(token.value_modifier[1] \o token.numeric_value[1].text)

\* C23: every attach call stores as value text the display text of the
\* token's value and as presence the token's is_present.
C23_StoredValueText ==
    \A p \in 1..Len(wAttachLog) :
        wAttachLog[p].ev = "issue" =>
            LET token == wParsed[wAttachLog[p].idx]
            IN  /\ wAttachLog[p].details.value_text = DisplayValue(token)
                /\ wAttachLog[p].details.is_present = token.is_present

\* C25: an invocation of processTokenInput whose input has no token issues
\* no parse and no attach call and leaves processing, results and error as
\* they were.
C25_NoTokensNoEffects ==
    [][(ProcessTokenInput /\ Fragments(wInput') = <<>>)
         => UNCHANGED <<wProcessing, wResults, wError, wRpcs, wAttachLog, wInFlight, wPc>>]_vars

\* C25 witness: with results of an earlier invocation shown and a disease
\* selected, an invocation with a whitespace-only input has returned.
C25_Witness ==
    /\ wPc = "idle"
    /\ Len(wSettled) = 2
    /\ LastSettled.input = <<" ">>
    /\ LastSettled.target # Null
    /\ wResults # <<>>
    /\ wRpcs = <<wSettled[1].input>>

\* C8: after a submit or resolve whose parse succeeded, every token without
\* a canonical feature is in the result list shown, flagged as unresolved
\* (processTokenInput: results; handleSubmit: processedTokens).
C8_UnresolvedNeverDropped ==
    /\ WorkflowFinished("done") =>
          \A i \in 1..Len(wParsed) :
              wParsed[i].canonical_feature_id = Null =>
                  \E p \in 1..Len(wResults) :
                      /\ wResults[p].token = wParsed[i]
                      /\ wResults[p].needsManualCreation
    /\ (hPc = "idle" /\ hAnswers # <<>> /\ ~hAnswers[Len(hAnswers)].error) =>
          LET rows == hAnswers[Len(hAnswers)].rows
          IN  \A i \in 1..Len(rows) :
                  rows[i].canonical_feature_id = Null =>
                      \E p \in 1..Len(hProcessedTokens) : hProcessedTokens[p] = rows[i]

\* C29: whenever the word under the cursor has at least 2 characters, it is
\* the query of useFeatureSearch (the query the hook searches for).
C29_WordIsQuery ==
    LET word == getCurrentWord(hInput, Len(hInput))
    IN  Len(word) >= 2 => sQuery = word

\* The rows of a parse answer that have a canonical feature.
CanonicalRows(answer) ==
    SelectSeq(answer.rows, LAMBDA t : t.canonical_feature_id # Null)

\* C30: between submits, onTokensAdded has been called once for every answer
\* with at least one canonical row, with exactly those rows, and an error
\* toast has been shown for every parse that failed.
C30_SubmitAddsResolved ==
    hPc = "idle" =>
        LET withRows == SelectSeq(hAnswers, LAMBDA a : ~a.error /\ CanonicalRows(a) # <<>>)
            failed == SelectSeq(hAnswers, LAMBDA a : a.error)
        IN  /\ Len(hAdded) = Len(withRows)
            /\ \A i \in 1..Len(hAdded) : hAdded[i] = CanonicalRows(withRows[i])
            /\ Len(SelectSeq(hToasts, LAMBDA t : t = "error")) = Len(failed)

\* C9 (as stated): the promise of processTokenInput rejects exactly when it
\* was called with no target entity.
C9_RejectsIffNoTarget ==
    \A i \in 1..Len(wSettled) :
        (wSettled[i].outcome = "rejected") <=> (wSettled[i].target = Null)

\* C9 (amended): the promise of processTokenInput never rejects; called with
\* no target entity it returns at the guard and sends no parse rpc, and a
\* failed lookup ends the invocation with the error kept in state.
C9_NeverRejects ==
    /\ \A i \in 1..Len(wSettled) :
          /\ wSettled[i].outcome = "resolved"
          /\ wSettled[i].target = Null => wSettled[i].how = "guard"
    /\ Len(wRpcs) = Cardinality({i \in 1..Len(wSettled) : wSettled[i].how # "guard"})
                      + (IF wPc = "idle" THEN 0 ELSE 1)
    /\ WorkflowFinished("parseError") => wError # Null

\* C9 witness: one invocation without a target returned at the guard, and one
\* whose lookup failed resolved with the error in state.
C9_Witness ==
    /\ Len(wSettled) = 2
    /\ wSettled[1].target = Null
    /\ wSettled[1].input # <<>>
    /\ wSettled[1].outcome = "resolved"
    /\ wSettled[2].how = "parseError"
    /\ wSettled[2].outcome = "resolved"
    /\ wError # Null

(***************************************************************************)
(* Specifications                                                          *)
(***************************************************************************)
\* parseTokensClient applied to every text of at most MaxLen characters
TkInit ==
    /\ tkInput \in StringsUpTo(MaxLen)
    /\ tkParsed = <<>>
    /\ tkClean = <<>>
    /\ tkReparsed = <<>>
    /\ tkPc = "input"
    /\ SIdle
    /\ WIdle
    /\ HIdle
    /\ CIdle

SpecTokenizer == TkInit /\ [][TkNext]_vars

\* useFeatureSearch from its mount
SInit ==
    /\ SIdle
    /\ TkIdle
    /\ WIdle
    /\ HIdle
    /\ CIdle

SpecSearch == SInit /\ [][SNext]_vars

\* useTokenInputWorkflow from its mount, with any diseaseId
WInit ==
    /\ WIdle
    /\ TkIdle
    /\ SIdle
    /\ HIdle
    /\ CIdle

SpecWorkflow == WInit /\ [][WNext]_vars

\* TokenInput from its mount, for a selected disease or none
HInit ==
    /\ hDiseaseId \in DiseaseIds
    /\ hInput = <<>>
    /\ hPc = "idle"
    /\ hProcessedTokens = <<>>
    /\ hIsProcessing = FALSE
    /\ hParsing = FALSE
    /\ hParseError = Null
    /\ hToasts = <<>>
    /\ hAdded = <<>>
    /\ hAnswers = <<>>
    /\ TkIdle
    /\ SIdle
    /\ sQuery = UseState(FALSE, <<>>, SuggestionQuery(<<>>, 0))   \* the first render
    /\ WIdle
    /\ CIdle

SpecSubmit == HInit /\ [][HNext]_vars

\* The BackendService singleton from module load
CInit ==
    /\ CIdle
    /\ TkIdle
    /\ SIdle
    /\ WIdle
    /\ HIdle

SpecCache == CInit /\ [][CNext]_vars

\* The BackendService singleton from module load, used as a store
StoreInit ==
    /\ CIdle
    /\ TkIdle
    /\ SIdle
    /\ WIdle
    /\ HIdle

SpecStore == StoreInit /\ [][StoreNext]_vars

====
